---- MODULE Spec2Model ----
(***************************************************************************)
(* Model of vitis/main.c of tensil-zcu104: the CIFAR benchmark harness      *)
(* test_resnet20v2_on_cifar and its helpers argmax and channel_mean.        *)
(*                                                                         *)
(* The harness is modelled statement block by statement block; pc names    *)
(* the block about to run.  The collaborators that are not part of the     *)
(* file (FatFs, the Tensil driver, the stopwatch, the console) are the      *)
(* environment: every call to them is logged and its result is drawn from  *)
(* the values the interface allows.                                        *)
(*                                                                         *)
(* Abstractions, stated once:                                              *)
(*  - float values are exact: seconds are whole ticks, a quotient is kept   *)
(*    as its numerator and denominator, scores are totally ordered         *)
(*    numbers (no NaN);                                                    *)
(*  - CIFAR_PIXELS_SIZE (1024 in the source) and the preview period (100   *)
(*    in the source) are checked at small values; every formula is stated  *)
(*    in terms of the definitions, not of the numbers.                     *)
(***************************************************************************)
EXTENDS Integers, Sequences, FiniteSets, TLC

VARIABLES
    \* inputs of one call of test_resnet20v2_on_cifar
    file,            \* the bytes of the dataset file on storage
    print_images,    \* the parameter
    \* locals of test_resnet20v2_on_cifar
    pc, res, fsize, bytes_read, buf, error,
    total_count, misclass_count, total_seconds, ptr, i, j,
    expected_class, red, green, blue, red_mean, green_mean, blue_mean,
    sw, seconds, result, actual_class, ret,
    \* the environment as the run has seen it
    calls,           \* driver and stopwatch calls made, in order, with results
    out,             \* console and printf output, in order
    reads,           \* offsets of the dataset buffer that have been read
    hist,            \* one entry per image that reached classification
    replay,          \* results the environment is bound to repeat (second run)
    prev,            \* outcome of the first run, once a second one has begun
    run_no,
    \* harness applying argmax to arbitrary vectors
    arg_pc, arg_size, arg_buffer, arg_ret

inVars == <<file, print_images>>
locVars == <<pc, res, fsize, bytes_read, buf, error, total_count,
             misclass_count, total_seconds, ptr, i, j, expected_class,
             red, green, blue, red_mean, green_mean, blue_mean,
             sw, seconds, result, actual_class, ret>>
envVars == <<calls, out, reads, hist, replay, prev, run_no>>
argVars == <<arg_pc, arg_size, arg_buffer, arg_ret>>
vars == <<inVars, locVars, envVars, argVars>>

----------------------------------------------------------------------------
(* Bounds of the model *)

\* records in a dataset file: 0..MaxRecords
MaxRecords == 2
\* pixels per channel (the source has 1024)
CIFAR_PIXELS_SIZE == 2
\* a preview is rendered every PREVIEW_PERIOD-th image (the source has 100)
PREVIEW_PERIOD == 2
\* longest score vector handed to argmax by the harness
MaxLen == 4

(* Program constants *)
CIFAR_CLASSES_SIZE == 10
\* (size_t)-1, the value argmax returns for size 0: the largest value of the
\* type.  The model's integers are narrower than size_t, so the largest model
\* integer stands for it; all that is used of it is that it is not below any
\* size.
SIZE_MAX == 2147483647
PROGRESS_SIZE == 4
\* pixels per row of the preview: if (j % 32 == 0) printf("\n")
CIFAR_ROW_SIZE == 32

\* bytes of a record: one label byte and three channels
RecordSize == CIFAR_PIXELS_SIZE * 3 + 1

\* bytes of the memory region at CIFAR_BUFFER_BASE into which the file is
\* read; the platform fixes it, the model takes a region that holds
\* MaxRecords whole records and no more
CIFAR_BUFFER_SIZE == MaxRecords * RecordSize

(* Values of the collaborators' result types *)
FR_OK == 0
FRESULT_Errors == {4, 1}            \* FR_NO_FILE, FR_DISK_ERR
TENSIL_ERROR_NONE == [kind |-> "none", code |-> 0]
TENSIL_FS_ERROR(r) == [kind |-> "fs", code |-> r]
DriverErrors == {[kind |-> "driver", code |-> 1], [kind |-> "driver", code |-> 2]}
Seconds == {1, 2}

(* Dataset files the model runs on *)
LabelBytes == {3, 200}
TrailLens == {0, RecordSize - 1}
\* the patterns of the n images of a file: all ramps, or white and ramp in turn
PatternSeqs(n) ==
    { [k \in 1 .. n |-> "ramp"],
      [k \in 1 .. n |-> IF k % 2 = 1 THEN "white" ELSE "ramp"] }

\* byte j of channel c (0 red, 1 green, 2 blue) of an image of pattern p
PatternByte(p, c, jj) ==
    IF p = "white" THEN 255 ELSE ((c * CIFAR_PIXELS_SIZE + jj) * 40 + 15) % 256

\* the file holding records with the given labels and patterns, then t
\* trailing bytes; a function on 0..length-1
FileOf(labs, pats, t) ==
    [o \in 0 .. (Len(labs) * RecordSize + t - 1) |->
        LET r == o \div RecordSize
            k == o % RecordSize
        IN  IF r >= Len(labs) THEN 170
            ELSE IF k = 0 THEN labs[r + 1]
            ELSE PatternByte(pats[r + 1], (k - 1) \div CIFAR_PIXELS_SIZE,
                             (k - 1) % CIFAR_PIXELS_SIZE)]

FileLen(f) == Cardinality(DOMAIN f)

\* output vectors the accelerator may deliver
OutputVectors ==
    { <<0, 0, 0, 1, 0, 0, 0, 0, 0, 0>>,
      <<0, 5, 0, 0, 0, 0, 0, 9, 0, 9>> }
StaleBytes == {0, 255}

NO_RETURN == [kind |-> "running", code |-> 0]

----------------------------------------------------------------------------
(* Pure helpers *)

\* (mutant) the comparison is >= : the last maximum wins
RECURSIVE argmax_scan_ge(_, _, _, _, _)
argmax_scan_ge(size, buffer, k, max, max_i) ==
    IF k >= size THEN max_i
    ELSE IF buffer[k + 1] >= max
         THEN argmax_scan_ge(size, buffer, k + 1, buffer[k + 1], k)
         ELSE argmax_scan_ge(size, buffer, k + 1, max, max_i)

\* the scan of argmax from index k on (0-based indices, as in the source)
RECURSIVE argmax_scan(_, _, _, _, _)
argmax_scan(size, buffer, k, max, max_i) ==
    IF k >= size THEN max_i
    ELSE IF buffer[k + 1] > max
         THEN argmax_scan(size, buffer, k + 1, buffer[k + 1], k)
         ELSE argmax_scan(size, buffer, k + 1, max, max_i)

argmax(size, buffer) ==
    IF size = 0 THEN SIZE_MAX
    ELSE argmax_scan(size, buffer, 1, buffer[1], 0)

\* a byte of the dataset buffer; the region beyond what f_read was asked to
\* fill holds whatever the memory held
ReadByte(o) == IF o \in DOMAIN buf THEN buf[o] ELSE 0

\* sum of the size bytes from offset base
RECURSIVE byte_sum(_, _)
byte_sum(size, base) ==
    IF size = 0 THEN 0 ELSE byte_sum(size - 1, base) + ReadByte(base + size - 1)

\* channel_mean as the exact quotient sum(v/255)/size = num/den
channel_mean(size, base) == [num |-> byte_sum(size, base), den |-> 255 * size]

\* CHANNEL_TO_FLOAT(v) - mean, as the numerator over the denominator of mean
centered(v, mean) == v * (mean.den \div 255) - mean.num

----------------------------------------------------------------------------
(* The environment: logged calls and their results *)

CallRec(fn, name, img, off, size, data, err, val) ==
    [fn |-> fn, name |-> name, img |-> img, off |-> off, size |-> size,
     data |-> data, err |-> err, val |-> val]

\* the results a call may give: any the interface allows, or, on a second
\* run over the same environment, the one it gave before
Answers(fn, img, off, choices) ==
    IF <<fn, img, off>> \in DOMAIN replay
    THEN {replay[<<fn, img, off>>]}
    ELSE choices

ErrOnly(errs) == {[err |-> e, val |-> <<>>] : e \in errs}
DriverResults == ErrOnly({TENSIL_ERROR_NONE} \cup DriverErrors)
FsResults == ErrOnly({FR_OK} \cup FRESULT_Errors)

Emit(evs) == out' = out \o evs
Ev(e, a) == [ev |-> e, args |-> a]

----------------------------------------------------------------------------
(* test_resnet20v2_on_cifar *)

Return(e) == ret' = e /\ pc' = "done"

\* FRESULT res = f_stat(file_name, &fno); if (res) return TENSIL_FS_ERROR(res);
Stat ==
    /\ pc = "stat"
    /\ \E a \in Answers("f_stat", 0, 0, FsResults) :
         /\ res' = a.err
         /\ calls' = Append(calls, CallRec("f_stat", "", 0, 0, 0, <<>>, a.err, <<>>))
         /\ IF a.err # FR_OK
            THEN Return(TENSIL_FS_ERROR(a.err)) /\ fsize' = fsize
            ELSE fsize' = FileLen(file) /\ pc' = "open" /\ ret' = ret
    /\ UNCHANGED <<inVars, bytes_read, buf, error, total_count, misclass_count,
                   total_seconds, ptr, i, j, expected_class, red, green, blue,
                   red_mean, green_mean, blue_mean, sw, seconds, result,
                   actual_class, out, reads, hist, replay, prev, run_no, argVars>>

\* res = f_open(...); if (res) return TENSIL_FS_ERROR(res); printf("Reading ...")
Open ==
    /\ pc = "open"
    /\ \E a \in Answers("f_open", 0, 0, FsResults) :
         /\ res' = a.err
         /\ calls' = Append(calls, CallRec("f_open", "", 0, 0, 0, <<>>, a.err, <<>>))
         /\ IF a.err # FR_OK
            THEN Return(TENSIL_FS_ERROR(a.err)) /\ out' = out
            ELSE pc' = "read" /\ ret' = ret /\ Emit(<<Ev("printf_reading", <<>>)>>)
    /\ UNCHANGED <<inVars, fsize, bytes_read, buf, error, total_count,
                   misclass_count, total_seconds, ptr, i, j, expected_class,
                   red, green, blue, red_mean, green_mean, blue_mean, sw,
                   seconds, result, actual_class, reads, hist, replay, prev,
                   run_no, argVars>>

\* what f_read may deliver for a request of n bytes: a result code, the count
\* of bytes delivered (all, or one short) and the byte the undelivered part of
\* the buffer holds
ReadResults(n) ==
    { [err |-> e, val |-> <<br, st>>] :
        e \in {FR_OK} \cup FRESULT_Errors,
        br \in {n} \cup (IF n > 0 THEN {n - 1} ELSE {}),
        st \in StaleBytes }

\* res = f_read(&fil, CIFAR_BUFFER_BASE, fno.fsize, &bytes_read); f_close(&fil);
\* if (res) return TENSIL_FS_ERROR(res);
Read ==
    /\ pc = "read"
    /\ \E a \in Answers("f_read", 0, 0, ReadResults(fsize)) :
         /\ (a.val[1] = fsize) => (a.val[2] = 0)
         /\ res' = a.err
         /\ bytes_read' = a.val[1]
         /\ buf' = [o \in 0 .. (fsize - 1) |->
                      IF o < a.val[1] THEN file[o] ELSE a.val[2]]
         /\ calls' = Append(calls,
                CallRec("f_read", "", 0, 0, fsize, <<>>, a.err, a.val))
         /\ IF a.err # FR_OK
            THEN Return(TENSIL_FS_ERROR(a.err))
            ELSE pc' = "setup" /\ ret' = ret
    /\ UNCHANGED <<inVars, fsize, error, total_count, misclass_count,
                   total_seconds, ptr, i, j, expected_class, red, green, blue,
                   red_mean, green_mean, blue_mean, sw, seconds, result,
                   actual_class, out, reads, hist, replay, prev, run_no, argVars>>

\* size_t total_count = fno.fsize / (CIFAR_PIXELS_SIZE * 3 + 1);
record_count(n) == n \div (CIFAR_PIXELS_SIZE * 3 + 1)

\* lines 84-95: the counters, the banner, the first clear of the screen, i = 0
Setup ==
    /\ pc = "setup"
    /\ total_count' = record_count(fsize)
    /\ misclass_count' = 0
    /\ ptr' = 0
    /\ total_seconds' = 0
    /\ i' = 0
    /\ Emit(<<Ev("printf_testing", <<>>)>>
            \o (IF print_images THEN <<Ev("console_clear_screen", <<>>)>> ELSE <<>>))
    /\ pc' = "loop"
    /\ UNCHANGED <<inVars, res, fsize, bytes_read, buf, error, j, expected_class,
                   red, green, blue, red_mean, green_mean, blue_mean, sw,
                   seconds, result, actual_class, ret, calls, reads, hist,
                   replay, prev, run_no, argVars>>

\* (mutant) the check of the error is missing
CheckError_Ignored(e, next) == pc' = next

\* if (error) goto cleanup;  otherwise execution goes on at block next
CheckError(e, next) ==
    pc' = IF e # TENSIL_ERROR_NONE THEN "cleanup" ELSE next

\* for (size_t i = 0; i < total_count; ...)
Loop ==
    /\ pc = "loop"
    /\ pc' = IF i < total_count THEN "record" ELSE "cleanup"
    /\ UNCHANGED <<inVars, res, fsize, bytes_read, buf, error, total_count,
                   misclass_count, total_seconds, ptr, i, j, expected_class,
                   red, green, blue, red_mean, green_mean, blue_mean, sw,
                   seconds, result, actual_class, ret, envVars, argVars>>

\* the pointer walk of lines 96-106
label_at(p) == p
\* (mutant) the pointer is not advanced past the label byte
red_at_label(p) == p
red_at(p) == p + 1
green_at(p) == red_at(p) + CIFAR_PIXELS_SIZE
blue_at(p) == green_at(p) + CIFAR_PIXELS_SIZE
ptr_after(p) == blue_at(p) + CIFAR_PIXELS_SIZE

\* lines 96-110: the label, the three channel views and their means
Record ==
    /\ pc = "record"
    /\ expected_class' = ReadByte(label_at(ptr))
    /\ red' = red_at(ptr)
    /\ green' = green_at(ptr)
    /\ blue' = blue_at(ptr)
    /\ ptr' = ptr_after(ptr)
    /\ red_mean' = channel_mean(CIFAR_PIXELS_SIZE, red_at(ptr))
    /\ green_mean' = channel_mean(CIFAR_PIXELS_SIZE, green_at(ptr))
    /\ blue_mean' = channel_mean(CIFAR_PIXELS_SIZE, blue_at(ptr))
    /\ reads' = reads \cup {label_at(ptr)}
                  \cup { c + k : c \in {red_at(ptr), green_at(ptr), blue_at(ptr)},
                                 k \in 0 .. (CIFAR_PIXELS_SIZE - 1) }
    /\ j' = 0
    /\ pc' = "stage"
    /\ UNCHANGED <<inVars, res, fsize, bytes_read, buf, error, total_count,
                   misclass_count, total_seconds, i, sw, seconds, result,
                   actual_class, ret, calls, out, hist, replay, prev, run_no,
                   argVars>>

\* (mutant) the mean of the red channel is used for every channel
pixel_at_red_mean(jj) ==
    << centered(ReadByte(red + jj), red_mean),
       centered(ReadByte(green + jj), red_mean),
       centered(ReadByte(blue + jj), red_mean) >>

\* float pixel[] = {CHANNEL_TO_FLOAT(red[j]) - red_mean, ...}
pixel_at(jj) ==
    << centered(ReadByte(red + jj), red_mean),
       centered(ReadByte(green + jj), green_mean),
       centered(ReadByte(blue + jj), blue_mean) >>

\* (mutant) the staging loop starts the execution one vector early
Stage_one_short ==
    /\ pc = "stage"
    /\ IF j < CIFAR_PIXELS_SIZE - 1
       THEN \E a \in Answers("load", i, j, DriverResults) :
              /\ error' = a.err
              /\ calls' = Append(calls,
                     CallRec("load", "x:0", i, j, 3, pixel_at(j), a.err, <<>>))
              /\ reads' = reads \cup {red + j, green + j, blue + j}
              /\ j' = IF a.err # TENSIL_ERROR_NONE THEN j ELSE j + 1
              /\ CheckError(a.err, "stage")
       ELSE /\ pc' = "sw_start"
            /\ UNCHANGED <<error, calls, reads, j>>
    /\ UNCHANGED <<inVars, res, fsize, bytes_read, buf, total_count,
                   misclass_count, total_seconds, ptr, i, expected_class,
                   red, green, blue, red_mean, green_mean, blue_mean, sw,
                   seconds, result, actual_class, ret, out, hist, replay, prev,
                   run_no, argVars>>

\* lines 112-122: one turn of the staging loop, or its exit
Stage ==
    /\ pc = "stage"
    /\ IF j < CIFAR_PIXELS_SIZE
       THEN \E a \in Answers("load", i, j, DriverResults) :
              /\ error' = a.err
              /\ calls' = Append(calls,
                     CallRec("load", "x:0", i, j, 3, pixel_at(j), a.err, <<>>))
              /\ reads' = reads \cup {red + j, green + j, blue + j}
              /\ j' = IF a.err # TENSIL_ERROR_NONE THEN j ELSE j + 1
              /\ CheckError(a.err, "stage")
       ELSE /\ pc' = "sw_start"
            /\ UNCHANGED <<error, calls, reads, j>>
    /\ UNCHANGED <<inVars, res, fsize, bytes_read, buf, total_count,
                   misclass_count, total_seconds, ptr, i, expected_class,
                   red, green, blue, red_mean, green_mean, blue_mean, sw,
                   seconds, result, actual_class, ret, out, hist, replay, prev,
                   run_no, argVars>>

\* struct stopwatch sw; error = stopwatch_start(&sw); if (error) goto cleanup;
SwStart ==
    /\ pc = "sw_start"
    /\ \E a \in Answers("stopwatch_start", i, 0, DriverResults) :
         /\ error' = a.err
         /\ calls' = Append(calls,
                CallRec("stopwatch_start", "", i, 0, 0, <<>>, a.err, <<>>))
         /\ sw' = IF a.err # TENSIL_ERROR_NONE THEN "idle" ELSE "running"
         /\ CheckError(a.err, "run")
    /\ UNCHANGED <<inVars, res, fsize, bytes_read, buf, total_count,
                   misclass_count, total_seconds, ptr, i, j, expected_class,
                   red, green, blue, red_mean, green_mean, blue_mean,
                   seconds, result, actual_class, ret, out, reads, hist,
                   replay, prev, run_no, argVars>>

\* error = tensil_driver_run(driver, NULL); if (error) goto cleanup;
Run ==
    /\ pc = "run"
    /\ \E a \in Answers("run", i, 0, DriverResults) :
         /\ error' = a.err
         /\ calls' = Append(calls, CallRec("run", "", i, 0, 0, <<>>, a.err, <<>>))
         /\ CheckError(a.err, "sw_stop")
    /\ UNCHANGED <<inVars, res, fsize, bytes_read, buf, total_count,
                   misclass_count, total_seconds, ptr, i, j, expected_class,
                   red, green, blue, red_mean, green_mean, blue_mean, sw,
                   seconds, result, actual_class, ret, out, reads, hist,
                   replay, prev, run_no, argVars>>

\* (mutant) the time is assigned, not accumulated
add_seconds_last(total, s) == s

\* total_seconds += seconds;
add_seconds(total, s) == total + s

\* stopwatch_stop(&sw); float seconds = stopwatch_elapsed_seconds(&sw);
\* total_seconds += seconds;
SwStop ==
    /\ pc = "sw_stop"
    /\ \E a \in Answers("stopwatch_stop", i, 0,
                        {[err |-> TENSIL_ERROR_NONE, val |-> <<s>>] : s \in Seconds}) :
         /\ sw' = "stopped"
         /\ seconds' = a.val[1]
         /\ total_seconds' = add_seconds(total_seconds, a.val[1])
         /\ calls' = Append(calls,
                CallRec("stopwatch_stop", "", i, 0, 0, <<>>, a.err, a.val))
    /\ pc' = "get"
    /\ UNCHANGED <<inVars, res, fsize, bytes_read, buf, error, total_count,
                   misclass_count, ptr, i, j, expected_class, red, green, blue,
                   red_mean, green_mean, blue_mean, result, actual_class, ret,
                   out, reads, hist, replay, prev, run_no, argVars>>

\* what tensil_driver_get_model_output_scalars may give: an error, or the
\* scalars of the output
GetResults ==
    ErrOnly(DriverErrors)
      \cup {[err |-> TENSIL_ERROR_NONE, val |-> v] : v \in OutputVectors}

\* float result[CIFAR_CLASSES_SIZE]; error = tensil_driver_get_model_output_scalars(
\*     driver, model, "Identity:0", CIFAR_CLASSES_SIZE, result); if (error) goto cleanup;
Get ==
    /\ pc = "get"
    /\ \E a \in Answers("get", i, 0, GetResults) :
         /\ error' = a.err
         /\ result' = IF a.err # TENSIL_ERROR_NONE THEN result ELSE a.val
         /\ calls' = Append(calls,
                CallRec("get", "Identity:0", i, 0, CIFAR_CLASSES_SIZE, <<>>,
                        a.err, a.val))
         /\ CheckError(a.err, "classify")
    /\ UNCHANGED <<inVars, res, fsize, bytes_read, buf, total_count,
                   misclass_count, total_seconds, ptr, i, j, expected_class,
                   red, green, blue, red_mean, green_mean, blue_mean, sw,
                   seconds, actual_class, ret, out, reads, hist, replay, prev,
                   run_no, argVars>>

\* if (actual_class != expected_class) misclass_count++;
count_miss(n, actual, expected) == IF actual # expected THEN n + 1 ELSE n

\* size_t actual_class = argmax(CIFAR_CLASSES_SIZE, result); lines 147-152
Classify ==
    /\ pc = "classify"
    /\ actual_class' = argmax(CIFAR_CLASSES_SIZE, result)
    /\ misclass_count' = count_miss(misclass_count,
                                    argmax(CIFAR_CLASSES_SIZE, result),
                                    expected_class)
    /\ hist' = Append(hist, [img |-> i, label |-> expected_class,
                             scores |-> result, seconds |-> seconds])
    /\ pc' = IF print_images THEN "progress" ELSE "next"
    /\ UNCHANGED <<inVars, res, fsize, bytes_read, buf, error, total_count,
                   total_seconds, ptr, i, j, expected_class, red, green, blue,
                   red_mean, green_mean, blue_mean, sw, seconds, result, ret,
                   calls, out, reads, replay, prev, run_no, argVars>>

\* console_set_cursor_position(1, 1); printf("%06zu: %.2f fps %c\n", ...);
\* if (i % 100 == 0) ...
Progress ==
    /\ pc = "progress"
    /\ Emit(<< Ev("console_set_cursor_position", <<1, 1>>),
               Ev("printf_progress", <<i, 1, seconds, i % PROGRESS_SIZE>>) >>)
    /\ pc' = IF i % PREVIEW_PERIOD = 0 THEN "preview" ELSE "next"
    /\ UNCHANGED <<inVars, res, fsize, bytes_read, buf, error, total_count,
                   misclass_count, total_seconds, ptr, i, j, expected_class,
                   red, green, blue, red_mean, green_mean, blue_mean, sw,
                   seconds, result, actual_class, ret, calls, reads, hist,
                   replay, prev, run_no, argVars>>

\* the output of the preview loop for pixels jj .. CIFAR_PIXELS_SIZE-1
RECURSIVE preview_cells(_)
preview_cells(jj) ==
    IF jj >= CIFAR_PIXELS_SIZE THEN <<>>
    ELSE << Ev("console_set_background_color",
               <<ReadByte(red + jj), ReadByte(green + jj), ReadByte(blue + jj)>>) >>
         \o (IF jj % CIFAR_ROW_SIZE = 0 THEN <<Ev("printf_newline", <<>>)>> ELSE <<>>)
         \o <<Ev("printf_cell", <<>>)>>
         \o preview_cells(jj + 1)

\* lines 158-172: the image preview and the "Result:" heading
Preview ==
    /\ pc = "preview"
    /\ Emit(<<Ev("printf_image", <<>>)>>
            \o preview_cells(0)
            \o << Ev("printf_newline", <<>>),
                  Ev("console_reset_background_color", <<>>),
                  Ev("printf_result", <<>>) >>)
    /\ reads' = reads \cup { c + k : c \in {red, green, blue},
                                     k \in 0 .. (CIFAR_PIXELS_SIZE - 1) }
    /\ pc' = "print_out"
    /\ UNCHANGED <<inVars, res, fsize, bytes_read, buf, error, total_count,
                   misclass_count, total_seconds, ptr, i, j, expected_class,
                   red, green, blue, red_mean, green_mean, blue_mean, sw,
                   seconds, result, actual_class, ret, calls, hist, replay,
                   prev, run_no, argVars>>

\* error = tensil_driver_print_model_output_vectors(driver, model, "Identity:0");
\* if (error) goto cleanup;
PrintOut ==
    /\ pc = "print_out"
    /\ \E a \in Answers("print", i, 0, DriverResults) :
         /\ error' = a.err
         /\ calls' = Append(calls,
                CallRec("print", "Identity:0", i, 0, 0, <<>>, a.err, <<>>))
         /\ CheckError(a.err, "label")
    /\ UNCHANGED <<inVars, res, fsize, bytes_read, buf, total_count,
                   misclass_count, total_seconds, ptr, i, j, expected_class,
                   red, green, blue, red_mean, green_mean, blue_mean, sw,
                   seconds, result, actual_class, ret, out, reads, hist,
                   replay, prev, run_no, argVars>>

\* lines 180-189: the coloured line naming cifar_classes[expected_class] and
\* cifar_classes[actual_class]
Label ==
    /\ pc = "label"
    /\ Emit(<< Ev("console_set_foreground_color",
                  IF actual_class = expected_class
                  THEN <<0, 255, 0>> ELSE <<255, 0, 0>>),
               Ev("printf_classes", <<expected_class, actual_class>>),
               Ev("console_reset_foreground_color", <<>>) >>)
    /\ pc' = "next"
    /\ UNCHANGED <<inVars, res, fsize, bytes_read, buf, error, total_count,
                   misclass_count, total_seconds, ptr, i, j, expected_class,
                   red, green, blue, red_mean, green_mean, blue_mean, sw,
                   seconds, result, actual_class, ret, calls, reads, hist,
                   replay, prev, run_no, argVars>>

\* (mutant) the index is advanced by two
NextImage_skip ==
    /\ pc = "next"
    /\ i' = i + 2
    /\ pc' = "loop"
    /\ UNCHANGED <<inVars, res, fsize, bytes_read, buf, error, total_count,
                   misclass_count, total_seconds, ptr, j, expected_class,
                   red, green, blue, red_mean, green_mean, blue_mean, sw,
                   seconds, result, actual_class, ret, envVars, argVars>>

\* i++ of the for statement
NextImage ==
    /\ pc = "next"
    /\ i' = i + 1
    /\ pc' = "loop"
    /\ UNCHANGED <<inVars, res, fsize, bytes_read, buf, error, total_count,
                   misclass_count, total_seconds, ptr, j, expected_class,
                   red, green, blue, red_mean, green_mean, blue_mean, sw,
                   seconds, result, actual_class, ret, envVars, argVars>>

\* cleanup: if (print_images) { console_clear_screen();
\*                              console_set_cursor_position(1, 1); }
\* (mutant) the cursor is not reset
cleanup_output_clear_only ==
    IF print_images THEN <<Ev("console_clear_screen", <<>>)>> ELSE <<>>

cleanup_output ==
    IF print_images
    THEN << Ev("console_clear_screen", <<>>),
            Ev("console_set_cursor_position", <<1, 1>>) >>
    ELSE <<>>

Cleanup ==
    /\ pc = "cleanup"
    /\ Emit(cleanup_output)
    /\ pc' = "summary"
    /\ UNCHANGED <<inVars, res, fsize, bytes_read, buf, error, total_count,
                   misclass_count, total_seconds, ptr, i, j, expected_class,
                   red, green, blue, red_mean, green_mean, blue_mean, sw,
                   seconds, result, actual_class, ret, calls, reads, hist,
                   replay, prev, run_no, argVars>>

\* (mutant) the summary is printed whatever the error
summary_wanted_always == TRUE

\* if (error == TENSIL_ERROR_NONE)
summary_wanted == error = TENSIL_ERROR_NONE

\* printf("ResNet20V2 on CIFAR: %lu images %.2f accuracy at %.2f fps\n",
\*        total_count, 1.0 - (float)misclass_count / (float)total_count,
\*        (float)total_count / total_seconds);
\* the arguments: the count, the two terms of the accuracy quotient, the two
\* terms of the fps quotient
summary_output ==
    << Ev("printf_summary",
          <<total_count, misclass_count, total_count, total_count, total_seconds>>) >>

\* lines 200-205
Summary ==
    /\ pc = "summary"
    /\ Emit(IF summary_wanted THEN summary_output ELSE <<>>)
    /\ Return(error)
    /\ UNCHANGED <<inVars, res, fsize, bytes_read, buf, error, total_count,
                   misclass_count, total_seconds, ptr, i, j, expected_class,
                   red, green, blue, red_mean, green_mean, blue_mean, sw,
                   seconds, result, actual_class, calls, reads, hist, replay,
                   prev, run_no, argVars>>

----------------------------------------------------------------------------
(* Specifications *)

\* the locals before the first statement; a local that has no value yet is
\* never read before it is assigned and is given a fixed one
InitLocals ==
    /\ pc = "stat" /\ res = FR_OK /\ fsize = 0 /\ bytes_read = 0
    /\ buf = <<>> /\ error = TENSIL_ERROR_NONE
    /\ total_count = 0 /\ misclass_count = 0 /\ total_seconds = 0
    /\ ptr = 0 /\ i = 0 /\ j = 0 /\ expected_class = 0
    /\ red = 0 /\ green = 0 /\ blue = 0
    /\ red_mean = [num |-> 0, den |-> 255]
    /\ green_mean = [num |-> 0, den |-> 255]
    /\ blue_mean = [num |-> 0, den |-> 255]
    /\ sw = "idle" /\ seconds = 0 /\ result = <<>> /\ actual_class = 0
    /\ ret = NO_RETURN

NoOutcome == [ret |-> NO_RETURN, total_count |-> 0, misclass_count |-> 0,
              total_seconds |-> 0, classified |-> 0, summary |-> <<>>]

InitEnv ==
    /\ calls = <<>> /\ out = <<>> /\ reads = {} /\ hist = <<>>
    /\ replay = <<>> /\ prev = NoOutcome /\ run_no = 1

ArgOff == arg_pc = "off" /\ arg_size = 0 /\ arg_buffer = <<>> /\ arg_ret = 0

Files ==
    UNION { { FileOf(labs, pats, t) :
                labs \in [1 .. n -> LabelBytes],
                pats \in PatternSeqs(n),
                t \in TrailLens } : n \in 0 .. MaxRecords }

Init ==
    /\ file \in Files
    /\ print_images \in BOOLEAN
    /\ InitLocals /\ InitEnv /\ ArgOff

Next ==
    \/ Stat \/ Open \/ Read \/ Setup \/ Loop \/ Record \/ Stage \/ SwStart
    \/ Run \/ SwStop \/ Get \/ Classify \/ Progress \/ Preview \/ PrintOut
    \/ Label \/ NextImage \/ Cleanup \/ Summary

Spec == Init /\ [][Next]_vars

(* Two runs over the same dataset and the same environment, the second with
   print_images negated: what the first run was answered is answered again *)

SummaryEvents == SelectSeq(out, LAMBDA e : e.ev = "printf_summary")

Outcome == [ret |-> ret, total_count |-> total_count,
            misclass_count |-> misclass_count, total_seconds |-> total_seconds,
            classified |-> Len(hist), summary |-> SummaryEvents]

CallKey(c) == <<c.fn, c.img, c.off>>

Recorded ==
    [k \in {CallKey(calls[n]) : n \in DOMAIN calls} |->
        LET n == CHOOSE m \in DOMAIN calls : CallKey(calls[m]) = k
        IN  [err |-> calls[n].err, val |-> calls[n].val]]

Rerun ==
    /\ pc = "done" /\ run_no = 1
    /\ prev' = Outcome
    /\ replay' = Recorded
    /\ run_no' = 2
    /\ print_images' = ~print_images
    /\ pc' = "stat" /\ res' = FR_OK /\ fsize' = 0 /\ bytes_read' = 0
    /\ buf' = <<>> /\ error' = TENSIL_ERROR_NONE
    /\ total_count' = 0 /\ misclass_count' = 0 /\ total_seconds' = 0
    /\ ptr' = 0 /\ i' = 0 /\ j' = 0 /\ expected_class' = 0
    /\ red' = 0 /\ green' = 0 /\ blue' = 0
    /\ red_mean' = [num |-> 0, den |-> 255]
    /\ green_mean' = [num |-> 0, den |-> 255]
    /\ blue_mean' = [num |-> 0, den |-> 255]
    /\ sw' = "idle" /\ seconds' = 0 /\ result' = <<>> /\ actual_class' = 0
    /\ ret' = NO_RETURN
    /\ calls' = <<>> /\ out' = <<>> /\ reads' = {} /\ hist' = <<>>
    /\ UNCHANGED <<file, argVars>>

NextTwice == Next \/ Rerun

\* the datasets of the two-run specification: whole records of one pattern
FilesTwice ==
    UNION { { FileOf(labs, [k \in 1 .. n |-> "ramp"], 0) :
                labs \in [1 .. n -> LabelBytes] } : n \in 0 .. MaxRecords }

InitTwice ==
    /\ file \in FilesTwice
    /\ print_images \in BOOLEAN
    /\ InitLocals /\ InitEnv /\ ArgOff

SpecTwice == InitTwice /\ [][NextTwice]_vars

(* argmax applied to any vector of up to MaxLen scores *)

Scores == {1, 5, 9}

ScoreVectors == UNION {[1 .. n -> Scores] : n \in 0 .. MaxLen}

ArgmaxCall ==
    /\ arg_pc = "call"
    /\ arg_ret' = argmax(arg_size, arg_buffer)
    /\ arg_pc' = "returned"
    /\ UNCHANGED <<inVars, locVars, envVars, arg_size, arg_buffer>>

InitArgmax ==
    /\ file = <<>> /\ print_images = FALSE
    /\ InitLocals /\ InitEnv
    /\ arg_pc = "call" /\ arg_ret = 0
    /\ arg_buffer \in ScoreVectors
    /\ arg_size = Len(arg_buffer)

NextArgmax == ArgmaxCall

SpecArgmax == InitArgmax /\ [][NextArgmax]_vars

----------------------------------------------------------------------------
(* Properties *)

Failed(c) == c.err # TENSIL_ERROR_NONE
StepFns == {"load", "run", "get"}
DriverFns == StepFns \cup {"print"}
Returned == pc = "done"
\* the bytes of a record, written out from the layout of the file format
RecBytes == 1 + CIFAR_PIXELS_SIZE + CIFAR_PIXELS_SIZE + CIFAR_PIXELS_SIZE

\* C1: when a staging, execution or output-retrieval call of an image fails,
\* it is the last call of the run (no retry, no later driver call for this or
\* a later image), the image is not classified (no substituted result), the
\* run is on its way out, and the value returned is the value that call gave.
C1_FailFast ==
    \A n \in DOMAIN calls :
        (calls[n].fn \in StepFns /\ Failed(calls[n])) =>
            /\ n = Len(calls)
            /\ pc \in {"cleanup", "summary", "done"}
            /\ error = calls[n].err
            /\ Len(hist) = calls[n].img
            /\ Returned => ret = calls[n].err

C1_Witness ==
    /\ Returned /\ Len(calls) > 0
    /\ calls[Len(calls)].fn = "run" /\ calls[Len(calls)].img = 1
    /\ calls[Len(calls)].err = [kind |-> "driver", code |-> 2]
    /\ ret = [kind |-> "driver", code |-> 2]

DriverFailure == \E n \in DOMAIN calls : calls[n].fn \in DriverFns /\ Failed(calls[n])

\* C2: a summary that is emitted reports as its image count the number of
\* images that were classified; and once a driver call has failed the run
\* returns an error and emits no summary at all.
C2_NoInflatedSummary ==
    /\ \A n \in DOMAIN out :
          out[n].ev = "printf_summary" => out[n].args[1] = Len(hist)
    /\ (DriverFailure /\ Returned) =>
          /\ ret # TENSIL_ERROR_NONE
          /\ SummaryEvents = <<>>

C2_Witness ==
    /\ Returned /\ Len(calls) > 0
    /\ calls[Len(calls)].fn = "run" /\ calls[Len(calls)].img = 1
    /\ Failed(calls[Len(calls)])
    /\ total_count = 2 /\ Len(hist) = 1
    /\ ret # TENSIL_ERROR_NONE /\ SummaryEvents = <<>>

\* the calls around the execution call: each is directly preceded by the
\* start of the stopwatch for the same image and, when it succeeds and the run
\* goes on, directly followed by the stop
TimerBracketsRun ==
    \A n \in DOMAIN calls :
        /\ calls[n].fn = "run" =>
              /\ n > 1 /\ calls[n - 1].fn = "stopwatch_start"
              /\ calls[n - 1].img = calls[n].img
              /\ n < Len(calls) => calls[n + 1].fn = "stopwatch_stop"
        /\ (calls[n].fn = "stopwatch_start" /\ n < Len(calls) /\ ~Failed(calls[n]))
              => calls[n + 1].fn = "run"
        /\ calls[n].fn = "stopwatch_stop" => calls[n - 1].fn = "run"

\* an interval is open from a successful stopwatch_start to stopwatch_stop
TimerOpenOnlyAroundRun == sw = "running" => pc \in {"run", "sw_stop"}

\* C3: the stopwatch is started directly before the execution call and
\* stopped directly after it returns, no staging or retrieval call lies in
\* between, and an interval is open only around the execution call, also when
\* that call fails.
C3_TimerScoped == TimerBracketsRun /\ TimerOpenOnlyAroundRun

\* the blocks in which the views of record i are in use
InRecord == pc \in {"stage", "sw_start", "run", "sw_stop", "get", "classify",
                    "progress", "preview", "print_out", "label", "next"}
\* the dataset is loaded and the counters are set (the banner of line 88 is out)
Loaded == \E n \in DOMAIN out : out[n].ev = "printf_testing"
\* the whole records of a file of n bytes
WholeRecords(n) == CHOOSE k \in 0 .. n : k * RecBytes <= n /\ n < (k + 1) * RecBytes

\* C4: the record count is floor(L / RecBytes); record i has its label at
\* RecBytes*i and its channels at RecBytes*i + 1, + 1 + CIFAR_PIXELS_SIZE and
\* + 1 + 2*CIFAR_PIXELS_SIZE; no byte from offset RecBytes*floor(L/RecBytes) on
\* is read; a run without error processes every record and reads exactly the
\* bytes of the whole records; a file shorter than one record gives no
\* record, no driver call and no error.
C4_RecordLayout ==
    LET L == FileLen(file)
        n == WholeRecords(L)
    IN  /\ Loaded => total_count = n
        /\ InRecord =>
              /\ i < n
              /\ expected_class = buf[RecBytes * i]
              /\ label_at(RecBytes * i) \in reads
              /\ red = RecBytes * i + 1
              /\ green = RecBytes * i + 1 + CIFAR_PIXELS_SIZE
              /\ blue = RecBytes * i + 1 + 2 * CIFAR_PIXELS_SIZE
              /\ ptr = RecBytes * (i + 1)
        /\ \A o \in reads : o < RecBytes * n
        /\ (Returned /\ ret = TENSIL_ERROR_NONE) =>
              /\ Len(hist) = n
              /\ \A k \in 1 .. n : hist[k].img = k - 1
              /\ reads = 0 .. (RecBytes * n - 1)
        /\ (Loaded /\ L < RecBytes) =>
              /\ calls = SelectSeq(calls, LAMBDA c : c.fn \in {"f_stat", "f_open", "f_read"})
              /\ hist = <<>>
              /\ error = TENSIL_ERROR_NONE
              /\ Returned => ret = TENSIL_ERROR_NONE

C4_Witness ==
    /\ Returned /\ ret = TENSIL_ERROR_NONE
    /\ FileLen(file) = 2 * RecBytes + RecBytes - 1
    /\ Len(hist) = 2
    /\ reads = 0 .. (2 * RecBytes - 1)

\* C5: for a non-empty vector argmax returns an index within the vector whose
\* element is the maximum and is strictly greater than every element before
\* it (the first maximum); <<5, 9, 9, 1>> gives 1.
C5_ArgmaxFirstMax ==
    (arg_pc = "returned" /\ arg_size > 0) =>
        /\ arg_ret \in 0 .. (arg_size - 1)
        /\ \A k \in 0 .. (arg_size - 1) : arg_buffer[k + 1] <= arg_buffer[arg_ret + 1]
        /\ \A k \in 0 .. (arg_ret - 1) : arg_buffer[k + 1] < arg_buffer[arg_ret + 1]
        /\ arg_buffer = <<5, 9, 9, 1>> => arg_ret = 1

C5_Witness ==
    arg_pc = "returned" /\ arg_buffer = <<5, 9, 9, 1>> /\ arg_ret = 1

\* C6: for a vector of length zero argmax reports an error: what it hands
\* back is not a number the caller can use as a class index.
C6_EmptyRejected ==
    (arg_pc = "returned" /\ arg_size = 0) => arg_ret \notin Nat

\* C7: the run with print_images and the run without, over the same dataset
\* and the same answers of the storage, the driver and the stopwatch, return
\* the same error and end with the same total count, misclassified count,
\* cumulative time and number of images classified.
C7_ReporterNoInfluence ==
    (run_no = 2 /\ Returned) =>
        /\ ret = prev.ret
        /\ total_count = prev.total_count
        /\ misclass_count = prev.misclass_count
        /\ total_seconds = prev.total_seconds
        /\ Len(hist) = prev.classified

StorageFns == {"f_stat", "f_open", "f_read"}
StorageError(c) ==
    /\ c.fn \in StorageFns
    /\ \/ c.err # FR_OK
       \/ c.fn = "f_read" /\ c.val[1] < c.size

\* C8: after a storage error (a failed f_stat, f_open or f_read, or an f_read
\* that delivers fewer bytes than the file size) the function has returned a
\* storage error, with no further call made and no image classified.
C8_StorageErrorsFatal ==
    \A n \in DOMAIN calls :
        StorageError(calls[n]) =>
            /\ n = Len(calls)
            /\ Returned
            /\ ret.kind = "fs"
            /\ hist = <<>>

RECURSIVE SumSeconds(_)
SumSeconds(h) == IF h = <<>> THEN 0 ELSE h[1].seconds + SumSeconds(Tail(h))
Misclassified(h) ==
    Cardinality({k \in DOMAIN h : argmax(CIFAR_CLASSES_SIZE, h[k].scores) # h[k].label})

\* C9: a run that returns no error over n records prints one summary: the
\* count n, the accuracy 1 - m/n with m the number of images whose argmax
\* class differs from the label, and the fps n / (sum of the n elapsed times);
\* elapsed times 1 and 2 give 2/3, not the mean of 1/1 and 1/2.
C9_SummaryValues ==
    (Returned /\ ret = TENSIL_ERROR_NONE) =>
        LET n == WholeRecords(FileLen(file))
        IN  /\ Len(hist) = n
            /\ Len(SummaryEvents) = 1
            /\ SummaryEvents[1].args[1] = n
            /\ SummaryEvents[1].args[2] = Misclassified(hist)
            /\ SummaryEvents[1].args[3] = n
            /\ SummaryEvents[1].args[4] = n
            /\ SummaryEvents[1].args[5] = SumSeconds(hist)
            /\ (n = 2 /\ hist[1].seconds = 1 /\ hist[2].seconds = 2) =>
                   SummaryEvents[1].args[4] = 2 /\ SummaryEvents[1].args[5] = 3

C9_Witness ==
    /\ Returned /\ ret = TENSIL_ERROR_NONE
    /\ Len(hist) = 2 /\ hist[1].seconds = 1 /\ hist[2].seconds = 2
    /\ Misclassified(hist) = 1
    /\ SummaryEvents = <<Ev("printf_summary", <<2, 1, 2, 2, 3>>)>>

\* the output without a summary at its end
BeforeSummary ==
    IF out # <<>> /\ out[Len(out)].ev = "printf_summary"
    THEN SubSeq(out, 1, Len(out) - 1) ELSE out

\* C10: with print_images, once the image loop has been left (in whatever
\* way) and the cleanup block has run, the output ends with clear screen, then
\* cursor to (1, 1), followed by the summary at most; and a summary is in the
\* output only if the error returned is TENSIL_ERROR_NONE.
C10_CleanupBeforeReturn ==
    /\ (print_images /\ Loaded /\ pc \in {"summary", "done"}) =>
          LET b == BeforeSummary
          IN  /\ Len(b) >= 2
              /\ b[Len(b) - 1] = Ev("console_clear_screen", <<>>)
              /\ b[Len(b)] = Ev("console_set_cursor_position", <<1, 1>>)
              /\ \A n \in DOMAIN b : b[n].ev # "printf_summary"
    /\ SummaryEvents # <<>> => (Returned /\ ret = TENSIL_ERROR_NONE)

C10_Witness ==
    /\ Returned /\ print_images /\ Len(calls) > 0
    /\ calls[Len(calls)].fn = "print" /\ Failed(calls[Len(calls)])
    /\ ret = calls[Len(calls)].err
    /\ out[Len(out)] = Ev("console_set_cursor_position", <<1, 1>>)
    /\ out[Len(out) - 1] = Ev("console_clear_screen", <<>>)

\* the points between two images and after the loop
BetweenImages == Loaded /\ pc \in {"loop", "cleanup", "summary", "done"}

\* C11: between images and after the loop the aggregates agree with the
\* images classified so far: the misclassified count is at most their number
\* and the cumulative time is the sum of their elapsed times, so an image
\* whose execution succeeded and whose output retrieval failed has added
\* nothing to either.
C11_AggregatesConsistent ==
    BetweenImages =>
        /\ misclass_count <= Len(hist)
        /\ total_seconds = SumSeconds(hist)

\* the staging, execution and retrieval calls made for image k, in order
StepCalls(k) == SelectSeq(calls, LAMBDA c : c.fn \in StepFns /\ c.img = k)
\* the calls of any kind made for images (the storage calls left out)
ImageCalls == SelectSeq(calls, LAMBDA c : c.fn \notin StorageFns)

\* C12: the driver calls of a classified image are CIFAR_PIXELS_SIZE staging
\* calls on "x:0" at offsets 0, 1, ... in ascending order with 3 scalars each,
\* then one execution call, then one retrieval call on "Identity:0" for
\* CIFAR_CLASSES_SIZE scalars, and nothing else; calls are made image after
\* image, and a call for an image is made only when every image before it
\* has been classified.
C12_CallProtocol ==
    /\ \A k \in 0 .. (Len(hist) - 1) :
          LET sc == StepCalls(k)
          IN  /\ Len(sc) = CIFAR_PIXELS_SIZE + 2
              /\ \A o \in 0 .. (CIFAR_PIXELS_SIZE - 1) :
                    /\ sc[o + 1].fn = "load" /\ sc[o + 1].name = "x:0"
                    /\ sc[o + 1].off = o /\ sc[o + 1].size = 3
                    /\ Len(sc[o + 1].data) = 3
              /\ sc[CIFAR_PIXELS_SIZE + 1].fn = "run"
              /\ sc[CIFAR_PIXELS_SIZE + 2].fn = "get"
              /\ sc[CIFAR_PIXELS_SIZE + 2].name = "Identity:0"
              /\ sc[CIFAR_PIXELS_SIZE + 2].size = CIFAR_CLASSES_SIZE
    /\ LET ic == ImageCalls
       IN  \A n \in DOMAIN ic :
             /\ ic[n].img <= Len(hist)
             /\ n > 1 => ic[n - 1].img <= ic[n].img
             /\ (n > 1 /\ ic[n - 1].img < ic[n].img) =>
                   ic[n - 1].fn \in {"get", "print"}
    /\ \A k \in DOMAIN hist : hist[k].img = k - 1

C12_Witness ==
    /\ Len(hist) = 2 /\ Returned
    /\ Len(StepCalls(0)) = CIFAR_PIXELS_SIZE + 2
    /\ Len(StepCalls(1)) = CIFAR_PIXELS_SIZE + 2
    /\ StepCalls(1)[1].off = 0 /\ StepCalls(1)[CIFAR_PIXELS_SIZE].off = CIFAR_PIXELS_SIZE - 1

\* every call of the run returns, so the block at pc is always carried out
SpecLive == Init /\ [][Next]_vars /\ WF_vars(Next)

AnyFailure(c) == IF c.fn \in StorageFns THEN c.err # FR_OK ELSE Failed(c)
ErrorOf(c) == IF c.fn \in StorageFns THEN TENSIL_FS_ERROR(c.err) ELSE c.err
InOrder == \A k \in DOMAIN hist : hist[k].img = k - 1

\* the run went through every record and no call failed
CompletedAll ==
    /\ ret = TENSIL_ERROR_NONE
    /\ Len(hist) = WholeRecords(FileLen(file))
    /\ \A n \in DOMAIN calls : ~AnyFailure(calls[n])

\* the run ended at its first failing call, with the error of that call
AbortedAtFirstFailure ==
    /\ ret # TENSIL_ERROR_NONE
    /\ calls # <<>>
    /\ AnyFailure(calls[Len(calls)])
    /\ ret = ErrorOf(calls[Len(calls)])
    /\ \A n \in 1 .. (Len(calls) - 1) : ~AnyFailure(calls[n])

\* C13: the function returns, and when it has returned it either went through
\* every one of the floor(L / RecBytes) records, once each and in storage
\* order, with no error, or it stopped at the first failing call with the
\* error of that call; at no point has a record been skipped.
C13_Terminates ==
    /\ <>Returned
    /\ [](InOrder /\ (Returned => (CompletedAll \/ AbortedAtFirstFailure)))

C13_Witness ==
    /\ Returned /\ CompletedAll /\ Len(hist) = 2 /\ InOrder
    /\ FileLen(file) = 2 * RecBytes + RecBytes - 1

\* sum of the n buffer bytes from offset b
RECURSIVE BufSum(_, _)
BufSum(b, n) == IF n = 0 THEN 0 ELSE buf[b] + BufSum(b + 1, n - 1)

\* C14: component c of the vector staged at position off of image img is
\* channel[c][off]/255 minus the mean of channel[c][*]/255 of that image, that
\* is (CIFAR_PIXELS_SIZE * channel[c][off] - sum of the channel's bytes) over
\* CIFAR_PIXELS_SIZE * 255; it is a function of the bytes of that record alone
\* (the logged data are the numerators).
C14_StagedVectors ==
    \A n \in DOMAIN calls :
        calls[n].fn = "load" =>
            \A c \in 1 .. 3 :
                LET ch == RecBytes * calls[n].img + 1 + (c - 1) * CIFAR_PIXELS_SIZE
                IN  calls[n].data[c] =
                        CIFAR_PIXELS_SIZE * buf[ch + calls[n].off]
                          - BufSum(ch, CIFAR_PIXELS_SIZE)

C14_Witness ==
    \E n \in DOMAIN calls :
        /\ calls[n].fn = "load" /\ calls[n].img = 1 /\ calls[n].off = 0
        /\ calls[n].data[2] # 0
        /\ calls[n].data[2] = CIFAR_PIXELS_SIZE * file[RecBytes + 1 + CIFAR_PIXELS_SIZE]
                                - BufSum(RecBytes + 1 + CIFAR_PIXELS_SIZE, CIFAR_PIXELS_SIZE)
        /\ \E m \in DOMAIN calls :
              calls[m].fn = "load" /\ calls[m].img = 0 /\ calls[m].data = <<0, 0, 0>>

\* the indices with which cifar_classes is read: the arguments of the line of
\* lines 185-187
ClassLookups ==
    UNION { {out[n].args[1], out[n].args[2]} :
              n \in {m \in DOMAIN out : out[m].ev = "printf_classes"} }

\* C15: every index with which cifar_classes is read (the label of the record
\* and the predicted class) is in 0 .. CIFAR_CLASSES_SIZE - 1, whatever the
\* label byte of the record.
C15_ClassIndexInRange ==
    \A k \in ClassLookups : k \in 0 .. (CIFAR_CLASSES_SIZE - 1)

\* C16: a file larger than the region at CIFAR_BUFFER_BASE is rejected before
\* the read: f_read is never asked for, and never delivers, more bytes than
\* the region holds.
C16_CapacityChecked ==
    \A n \in DOMAIN calls :
        calls[n].fn = "f_read" =>
            /\ calls[n].size <= CIFAR_BUFFER_SIZE
            /\ calls[n].val[1] <= CIFAR_BUFFER_SIZE

Events(names) == SelectSeq(out, LAMBDA e : e.ev \in names)
\* the classified images that are due a preview, in order
RECURSIVE PreviewImages(_)
PreviewImages(n) ==
    IF n = 0 THEN <<>>
    ELSE PreviewImages(n - 1)
           \o (IF (n - 1) % PREVIEW_PERIOD = 0 THEN <<n - 1>> ELSE <<>>)

\* the preview of record k from pixel jj on: per pixel the colour of its three
\* bytes, a new row before every pixel with jj mod CIFAR_ROW_SIZE = 0, a cell
RECURSIVE ExpectedCells(_, _)
ExpectedCells(k, jj) ==
    IF jj >= CIFAR_PIXELS_SIZE THEN <<>>
    ELSE << Ev("console_set_background_color",
               << buf[RecBytes * k + 1 + jj],
                  buf[RecBytes * k + 1 + CIFAR_PIXELS_SIZE + jj],
                  buf[RecBytes * k + 1 + 2 * CIFAR_PIXELS_SIZE + jj] >>) >>
         \o (IF jj % CIFAR_ROW_SIZE = 0 THEN <<Ev("printf_newline", <<>>)>> ELSE <<>>)
         \o <<Ev("printf_cell", <<>>)>>
         \o ExpectedCells(k, jj + 1)

RECURSIVE ExpectedPreviews(_)
ExpectedPreviews(ks) ==
    IF ks = <<>> THEN <<>>
    ELSE <<Ev("printf_image", <<>>)>> \o ExpectedCells(ks[1], 0)
         \o << Ev("printf_newline", <<>>), Ev("console_reset_background_color", <<>>),
               Ev("printf_result", <<>>) >>
         \o ExpectedPreviews(Tail(ks))

\* one progress line per classified image: index, 1/seconds, glyph i mod 4
ProgressEveryImage ==
    Events({"printf_progress"}) =
        [k \in 1 .. Len(hist) |->
            Ev("printf_progress", <<k - 1, 1, hist[k].seconds, (k - 1) % 4>>)]

PreviewExactlyPeriodic ==
    Events({"printf_image", "console_set_background_color", "printf_newline",
            "printf_cell", "console_reset_background_color", "printf_result"})
      = ExpectedPreviews(PreviewImages(Len(hist)))

\* the output dump is asked for exactly for the images due a preview
DumpExactlyPeriodic ==
    LET d == SelectSeq(calls, LAMBDA c : c.fn = "print")
        ks == PreviewImages(Len(hist))
    IN  /\ Len(d) = Len(ks)
        /\ \A n \in DOMAIN d : d[n].img = ks[n] /\ d[n].name = "Identity:0"

LabelExactlyPeriodic ==
    LET ks == PreviewImages(Len(hist))
    IN  Events({"printf_classes"}) =
            [n \in 1 .. Len(ks) |->
                Ev("printf_classes",
                   << hist[ks[n] + 1].label,
                      argmax(CIFAR_CLASSES_SIZE, hist[ks[n] + 1].scores) >>)]

\* without print_images only the two banners and the summary are printed and
\* the output dump is never asked for
QuietWhenDisabled ==
    /\ \A n \in DOMAIN out :
          out[n].ev \in {"printf_reading", "printf_testing", "printf_summary"}
    /\ \A n \in DOMAIN calls : calls[n].fn # "print"

\* C17: with print_images, between images and after the loop, every image
\* classified so far has its progress line (index, 1/seconds, glyph
\* progress[i mod 4]), and the preview (a new row before each pixel j with
\* j mod CIFAR_ROW_SIZE = 0), the output dump and the label line are there
\* exactly for the images with i mod PREVIEW_PERIOD = 0; without print_images
\* there is no console output and no output dump.
C17_Reporting ==
    /\ (print_images /\ BetweenImages) =>
          /\ ProgressEveryImage
          /\ PreviewExactlyPeriodic
          /\ DumpExactlyPeriodic
          /\ LabelExactlyPeriodic
    /\ ~print_images => QuietWhenDisabled

====
